---- MODULE Spec2Model ----
(***************************************************************************)
(* Model of the python-sgp4 visibility pipeline:                           *)
(*   main.py        main(): the loop over the test files                   *)
(*   calculator.py  calculate(), _generate_times(), _calculate_positions() *)
(*                  and _find_visibility_windows()                         *)
(* The python-skyfield calculator has the same _generate_times and         *)
(* _find_visibility_windows, line for line.                                *)
(*                                                                         *)
(* Units.  A datetime is a number of ticks, TicksPerSecond ticks to the    *)
(* second, so that a start time may carry a fraction of a second; strftime *)
(* renders whole seconds.  An elevation is a number of lattice units,      *)
(* LatticePerCenti units to the hundredth of a degree, so that a sample    *)
(* may carry more than two decimals; round(x, 2) yields a multiple of      *)
(* LatticePerCenti.  A range is a whole number of kilometres and a range   *)
(* rate is a fraction [num, den] in km/s.                                  *)
(***************************************************************************)
EXTENDS Integers, Naturals, Sequences, FiniteSets, TLC

\* ---------------------------------------------------------------- bounds
TicksPerSecond == 2
LatticePerCenti == 5
MaxEnd == 7
MaxFiles == 2

\* the longest grid a positive step can produce is MaxEnd \div TicksPerSecond + 1;
\* a loop that a step <= 0 keeps running is cut one element later
MaxGrid == (MaxEnd \div TicksPerSecond) + 2

\* the inputs of a test case
Starts == 0 .. (TicksPerSecond - 1)
Ends == 0 .. MaxEnd
Steps == {0 - 1, 0, 1, 2}
MinElevations == {10 * LatticePerCenti, 10 * LatticePerCenti + 2}
\* what the propagator and the projector can yield at one time
Elevations == {10 * LatticePerCenti - 2, 10 * LatticePerCenti + 2, 10 * LatticePerCenti + 4}
Ranges == {10, 12}

None == 0 - 1

\* ------------------------------------------------------- pure functions
\* datetime.strftime('%Y-%m-%dT%H:%M:%SZ'): second precision, the fraction is dropped
strftime(t) == t \div TicksPerSecond

\* Python round() on a quotient num/den >= 0: to the nearest integer, halves to even
RoundHalfEven(num, den) ==
    LET q == num \div den
        r == num % den
    IN  IF 2 * r < den THEN q
        ELSE IF 2 * r > den THEN q + 1
        ELSE IF q % 2 = 0 THEN q ELSE q + 1

\* round(x, 2) of an elevation: the nearest hundredth, as a lattice value
Round2(x) == LatticePerCenti * RoundHalfEven(x - LatticePerCenti * (x \div LatticePerCenti), LatticePerCenti)
             + LatticePerCenti * (x \div LatticePerCenti)

\* Python indexing of a list with a 0-based and possibly negative index
PyIndex(seq, n) == IF n < 0 THEN seq[Len(seq) + n + 1] ELSE seq[n + 1]

\* _generate_times: the loop condition and the increment
LoopCondMut(current, end) == current < end
LoopCond(current, end) == current <= end

NextTime(current, step_seconds) == current + step_seconds * TicksPerSecond

\* _calculate_positions: a sample is produced only when sgp4 reports no error
EmitsSampleMut(error_code) == TRUE
EmitsSample(error_code) == error_code = 0

Zero == [num |-> 0, den |-> 1]

\* _calculate_positions: the forward difference over the next grid time
RangeRateMut(lookahead, range_km, time_diff) ==
    IF lookahead.error_code = 0
    THEN IF time_diff > 0
         THEN [num |-> (range_km - lookahead.range) * TicksPerSecond, den |-> time_diff]
         ELSE Zero
    ELSE Zero
RangeRate(lookahead, range_km, time_diff) ==
    IF lookahead.error_code = 0
    THEN IF time_diff > 0
         THEN [num |-> (lookahead.range - range_km) * TicksPerSecond, den |-> time_diff]
         ELSE Zero
    ELSE Zero

\* _find_visibility_windows: the threshold test
InThresholdMut(elevation, min_el) == elevation > min_el
InThresholdRounded(elevation, min_el) == Round2(elevation) >= min_el
InThreshold(elevation, min_el) == elevation >= min_el

\* _find_visibility_windows: the running peak is replaced only by a greater elevation
PeakUpdateMut(elevation, max_el) == elevation >= max_el
PeakUpdate(elevation, max_el) == elevation > max_el

\* _find_visibility_windows: a window closed at 0-based index n ends at the sample before
WindowEndMut(ps, n) == PyIndex(ps, n).time
WindowEndLast(ps, n) == PyIndex(ps, 0 - 1).time
WindowEnd(ps, n) == PyIndex(ps, n - 1).time

\* _find_visibility_windows: round((window_end - window_start).total_seconds(), 0)
DurationMut(window_end, start) == RoundHalfEven(window_end - start, TicksPerSecond) + 1
Duration(window_end, start) == RoundHalfEven(window_end - start, TicksPerSecond)

\* the dictionary appended to windows
Window(start, window_end, max_el, max_time, points) ==
    [start |-> strftime(start),
     end |-> strftime(window_end),
     maxElevation |-> Round2(max_el),
     maxElevationTime |-> strftime(max_time),
     duration |-> Duration(window_end, start),
     points |-> points]

\* the dictionary appended to window_positions
Point(pos) == [time |-> strftime(pos.time), elevation |-> Round2(pos.elevation)]

\* main: the exit statuses
SuccessStatus == 0
ExceptStatusMut == SuccessStatus
ExceptStatus == 1

\* what satellite.sgp4 can return at one time
Sgp4Results ==
    {[error_code |-> 1, elevation |-> 0, range |-> 0]}
    \cup {[error_code |-> 0, elevation |-> e, range |-> r] : e \in Elevations, r \in Ranges}

\* ----------------------------------------------------------------- state
VARIABLES
    argv, numFiles, fileIdx, written, exitStatus, pc,
    start_time, end_time, step_seconds, min_elevation,
    times, current,
    ephem, positions, i,
    windows, in_window, window_start, window_positions,
    window_max_elevation, window_max_elevation_time, n

mainVars == <<argv, numFiles, fileIdx, written, exitStatus>>
caseVars == <<start_time, end_time, step_seconds, min_elevation>>
genVars == <<times, current>>
posVars == <<ephem, positions, i>>
winVars == <<windows, in_window, window_start, window_positions,
             window_max_elevation, window_max_elevation_time, n>>
vars == <<mainVars, pc, caseVars, genVars, posVars, winVars>>

\* the locals of calculate() before it is entered and after it has returned
NoCalculation ==
    /\ start_time = None /\ end_time = None /\ step_seconds = 0 /\ min_elevation = 0
    /\ times = <<>> /\ current = None
    /\ ephem = <<>> /\ positions = <<>> /\ i = 0
    /\ windows = <<>> /\ in_window = FALSE /\ window_start = None
    /\ window_positions = <<>> /\ window_max_elevation = 0 - 90 * 100 * LatticePerCenti
    /\ window_max_elevation_time = None /\ n = 0

Init ==
    /\ argv \in BOOLEAN
    /\ numFiles \in (IF argv THEN {1} ELSE 0 .. MaxFiles)
    /\ fileIdx = 1
    /\ written = {}
    /\ exitStatus = None
    /\ pc = "main"
    /\ NoCalculation

\* ------------------------------------------------------------------ main
\* main.py 67-69: a file named on the command line does not exist
FileNotFound ==
    /\ pc = "main" /\ fileIdx <= numFiles /\ argv
    /\ exitStatus' = ExceptStatus
    /\ pc' = "exit"
    /\ UNCHANGED <<argv, numFiles, fileIdx, written, caseVars, genVars, posVars, winVars>>

\* main.py 73-79, 98-102: load_test_case or the prelude of calculate raises
\* (bad JSON, a missing field, a TLE or a timestamp that does not parse)
LoadFails ==
    /\ pc = "main" /\ fileIdx <= numFiles
    /\ exitStatus' = ExceptStatus
    /\ pc' = "exit"
    /\ UNCHANGED <<argv, numFiles, fileIdx, written, caseVars, genVars, posVars, winVars>>

\* main.py 75-79 and calculator.py 39-54, 85-86: the test case is loaded and
\* calculate() enters _generate_times
CalculateStart ==
    /\ pc = "main" /\ fileIdx <= numFiles
    /\ \E s \in Starts, e \in Ends, st \in Steps, m \in MinElevations :
        /\ start_time' = s /\ end_time' = e /\ step_seconds' = st /\ min_elevation' = m
        /\ times' = <<>>
        /\ current' = s
    /\ pc' = "generate"
    /\ UNCHANGED <<mainVars, posVars, winVars>>

\* calculator.py 87-89: one iteration of the while loop
GenerateTimesStep ==
    /\ pc = "generate"
    /\ LoopCond(current, end_time)
    /\ Len(times) < MaxGrid
    /\ times' = Append(times, current)
    /\ current' = NextTime(current, step_seconds)
    /\ UNCHANGED <<mainVars, pc, caseVars, posVars, winVars>>

\* calculator.py 90, 162: the loop ends and _calculate_positions starts
GenerateTimesReturn ==
    /\ pc = "generate"
    /\ ~LoopCond(current, end_time)
    /\ pc' = "positions"
    /\ positions' = <<>> /\ ephem' = <<>> /\ i' = 0
    /\ UNCHANGED <<mainVars, caseVars, genVars, winVars>>

\* calculator.py 164-213: one iteration of the for loop.  sgp4 is a function of
\* the time: ephem records what it returned at each grid time, so that the
\* look-ahead call at times[i+1] and the call of the next iteration agree.
CalculatePositionsStep ==
    /\ pc = "positions"
    /\ i < Len(times)
    /\ \E here \in Sgp4Results, ahead \in Sgp4Results :
        LET dt == PyIndex(times, i)
            known == Len(ephem) > i
            res == IF known THEN PyIndex(ephem, i) ELSE here
            eph1 == IF known THEN ephem ELSE Append(ephem, here)
        IN  /\ known => here = PyIndex(ephem, i)
            /\ IF ~EmitsSample(res.error_code)
               THEN /\ ahead = here
                    /\ ephem' = eph1
                    /\ positions' = positions
               ELSE IF i < Len(times) - 1
               THEN /\ ephem' = Append(eph1, ahead)
                    /\ positions' = Append(positions,
                          [time |-> dt, elevation |-> res.elevation, range |-> res.range,
                           rangeRate |-> RangeRate(ahead, res.range, PyIndex(times, i + 1) - dt)])
               ELSE /\ ahead = here
                    /\ ephem' = eph1
                    /\ positions' = Append(positions,
                          [time |-> dt, elevation |-> res.elevation, range |-> res.range,
                           rangeRate |-> Zero])
    /\ i' = i + 1
    /\ UNCHANGED <<mainVars, pc, caseVars, genVars, winVars>>

\* calculator.py 215, 265-270: the loop ends and _find_visibility_windows starts
CalculatePositionsReturn ==
    /\ pc = "positions"
    /\ i >= Len(times)
    /\ pc' = "windows"
    /\ windows' = <<>> /\ in_window' = FALSE /\ window_start' = None
    /\ window_positions' = <<>>
    /\ window_max_elevation' = 0 - 90 * 100 * LatticePerCenti
    /\ window_max_elevation_time' = None
    /\ n' = 0
    /\ UNCHANGED <<mainVars, caseVars, genVars, posVars>>

\* calculator.py 272-312: one iteration of the for loop over positions
FindWindowsStep ==
    /\ pc = "windows"
    /\ n < Len(positions)
    /\ LET pos == PyIndex(positions, n)
       IN  IF InThreshold(pos.elevation, min_elevation)
           THEN LET opening == ~in_window
                    max0 == IF opening THEN pos.elevation ELSE window_max_elevation
                    maxt0 == IF opening THEN pos.time ELSE window_max_elevation_time
                    pts0 == IF opening THEN <<>> ELSE window_positions
                    higher == PeakUpdate(pos.elevation, max0)
                IN  /\ in_window' = TRUE
                    /\ window_start' = IF opening THEN pos.time ELSE window_start
                    /\ window_max_elevation' = IF higher THEN pos.elevation ELSE max0
                    /\ window_max_elevation_time' = IF higher THEN pos.time ELSE maxt0
                    /\ window_positions' = Append(pts0, Point(pos))
                    /\ windows' = windows
           ELSE IF in_window
           THEN /\ windows' = Append(windows,
                        Window(window_start, WindowEnd(positions, n), window_max_elevation,
                               window_max_elevation_time, window_positions))
                /\ in_window' = FALSE
                /\ UNCHANGED <<window_start, window_positions, window_max_elevation,
                               window_max_elevation_time>>
           ELSE UNCHANGED <<windows, in_window, window_start, window_positions,
                            window_max_elevation, window_max_elevation_time>>
    /\ n' = n + 1
    /\ UNCHANGED <<mainVars, pc, caseVars, genVars, posVars>>

\* calculator.py 314-328, 73-81: the scan ends, a window still open is closed
\* at the last sample, and calculate() returns the result to main
FindWindowsReturn ==
    /\ pc = "windows"
    /\ n >= Len(positions)
    /\ IF in_window /\ window_positions # <<>>
       THEN windows' = Append(windows,
                Window(window_start, PyIndex(positions, 0 - 1).time, window_max_elevation,
                       window_max_elevation_time, window_positions))
       ELSE windows' = windows
    /\ pc' = "write"
    /\ UNCHANGED <<mainVars, caseVars, genVars, posVars, in_window, window_start,
                   window_positions, window_max_elevation, window_max_elevation_time, n>>

\* main.py 82-96: the result is written and the loop goes to the next file;
\* the locals of calculate() are gone
WriteResult ==
    /\ pc = "write"
    /\ written' = written \cup {fileIdx}
    /\ fileIdx' = fileIdx + 1
    /\ pc' = "main"
    /\ start_time' = None /\ end_time' = None /\ step_seconds' = 0 /\ min_elevation' = 0
    /\ times' = <<>> /\ current' = None
    /\ ephem' = <<>> /\ positions' = <<>> /\ i' = 0
    /\ windows' = <<>> /\ in_window' = FALSE /\ window_start' = None
    /\ window_positions' = <<>> /\ window_max_elevation' = 0 - 90 * 100 * LatticePerCenti
    /\ window_max_elevation_time' = None /\ n' = 0
    /\ UNCHANGED <<argv, numFiles, exitStatus>>

\* main.py 104-105: every file has been processed
ExitSuccess ==
    /\ pc = "main" /\ fileIdx > numFiles
    /\ exitStatus' = SuccessStatus
    /\ pc' = "exit"
    /\ UNCHANGED <<argv, numFiles, fileIdx, written, caseVars, genVars, posVars, winVars>>

Next ==
    \/ FileNotFound
    \/ LoadFails
    \/ CalculateStart
    \/ GenerateTimesStep
    \/ GenerateTimesReturn
    \/ CalculatePositionsStep
    \/ CalculatePositionsReturn
    \/ FindWindowsStep
    \/ FindWindowsReturn
    \/ WriteResult
    \/ ExitSuccess

Spec == Init /\ [][Next]_vars


\* ------------------------------------------------- vocabulary of the claims
Emitted == pc \in {"windows", "write"}
Returned == pc = "write"

\* the greatest and the least member of a non-empty set of integers
MaxOf(S) == CHOOSE x \in S : \A y \in S : y <= x
MinOf(S) == CHOOSE x \in S : \A y \in S : x <= y

\* the indices of the samples whose points a window holds
SamplesOf(w) ==
    {k \in 1 .. Len(positions) :
        \E q \in 1 .. Len(w.points) : w.points[q].time = strftime(positions[k].time)}

PointElevations(w) == {w.points[q].elevation : q \in 1 .. Len(w.points)}

\* the maximal runs <<lo, hi>> of consecutive samples at or above the threshold
Runs ==
    {r \in (1 .. Len(positions)) \X (1 .. Len(positions)) :
        /\ r[1] <= r[2]
        /\ \A k \in r[1] .. r[2] : positions[k].elevation >= min_elevation
        /\ (r[1] = 1 \/ positions[r[1] - 1].elevation < min_elevation)
        /\ (r[2] = Len(positions) \/ positions[r[2] + 1].elevation < min_elevation)}

\* the grid indices, among the first g, at which sgp4 succeeded, in grid order
Succeeded(g) == SelectSeq([k \in 1 .. g |-> k], LAMBDA k : ephem[k].error_code = 0)

\* the grid index of a sample
GridIndex(p) == CHOOSE g \in 1 .. Len(times) : times[g] = p.time

\* ---------------------------------------------------------------- claims

\* C1 (as stated): every point of every emitted window has an elevation >=
\* minElevation, and the window's maxElevation is the maximum elevation among
\* its points.
C1_AsStated ==
    Emitted =>
        \A a \in 1 .. Len(windows) :
            /\ \A q \in 1 .. Len(windows[a].points) :
                  windows[a].points[q].elevation >= min_elevation
            /\ windows[a].maxElevation = MaxOf(PointElevations(windows[a]))

\* C1 (amended): every point of every emitted window comes from a sample whose
\* elevation, before rounding, is >= minElevation; the point's elevation, which
\* is rounded to two decimals, is >= minElevation rounded to two decimals; and
\* the window's maxElevation is the maximum elevation among its points.
C1_WindowInvariant ==
    Emitted =>
        \A a \in 1 .. Len(windows) :
            /\ Len(windows[a].points) = Cardinality(SamplesOf(windows[a]))
            /\ \A k \in SamplesOf(windows[a]) : positions[k].elevation >= min_elevation
            /\ \A q \in 1 .. Len(windows[a].points) :
                  windows[a].points[q].elevation >= Round2(min_elevation)
            /\ windows[a].maxElevation = MaxOf(PointElevations(windows[a]))

\* a window of several points of different elevations, one of them exactly at a
\* threshold that has more than two decimals
C1_Witness ==
    /\ Returned
    /\ min_elevation # Round2(min_elevation)
    /\ \E a \in 1 .. Len(windows) :
        /\ Cardinality(PointElevations(windows[a])) >= 2
        /\ \E k \in SamplesOf(windows[a]) : positions[k].elevation = min_elevation

\* C2: once a sample at or above the threshold has been followed by a sample
\* below it, a window holding the first of the two has been emitted whose end
\* is that sample's time and not the time of the sample below the threshold.
C2_WindowClosure ==
    Emitted =>
        \A k \in 1 .. (Len(positions) - 1) :
            (/\ k + 1 <= n
             /\ positions[k].elevation >= min_elevation
             /\ positions[k + 1].elevation < min_elevation)
            => \E a \in 1 .. Len(windows) :
                  /\ k \in SamplesOf(windows[a])
                  /\ windows[a].end = strftime(positions[k].time)
                  /\ windows[a].end # strftime(positions[k + 1].time)

\* a window of two samples closed by a sample below the threshold
C2_Witness ==
    /\ Returned
    /\ \E k \in 2 .. (Len(positions) - 1) :
        /\ positions[k - 1].elevation >= min_elevation
        /\ positions[k].elevation >= min_elevation
        /\ positions[k + 1].elevation < min_elevation
        /\ \E a \in 1 .. Len(windows) : windows[a].end = strftime(positions[k].time)

\* C3: the windows are in increasing time order, each ends strictly before the
\* next one starts, and every sample between two consecutive windows is below
\* the threshold.
C3_OrderedDisjoint ==
    Emitted =>
        \A a \in 1 .. (Len(windows) - 1) :
            /\ windows[a].start < windows[a + 1].start
            /\ windows[a].end < windows[a + 1].start
            /\ \A k \in 1 .. Len(positions) :
                  (/\ windows[a].end < strftime(positions[k].time)
                   /\ strftime(positions[k].time) < windows[a + 1].start)
                  => positions[k].elevation < min_elevation

\* two windows with a sample between them
C3_Witness ==
    /\ Returned
    /\ Len(windows) >= 2
    /\ \E k \in 1 .. Len(positions) :
        /\ windows[1].end < strftime(positions[k].time)
        /\ strftime(positions[k].time) < windows[2].start

\* C4: the windows are the maximal runs of samples at or above the threshold,
\* one window per run, in order, each holding the points of the samples of its
\* run in sample order.
C4_MaximalRuns ==
    Returned =>
        /\ Len(windows) = Cardinality(Runs)
        /\ \A r \in Runs :
            LET a == 1 + Cardinality({r2 \in Runs : r2[1] < r[1]})
            IN  windows[a].points =
                    [q \in 1 .. (r[2] - r[1] + 1) |->
                        [time |-> strftime(positions[r[1] + q - 1].time),
                         elevation |-> Round2(positions[r[1] + q - 1].elevation)]]

\* a run of two samples, a sample below the threshold, then a run of one sample,
\* with a sample exactly at the threshold
C4_Witness ==
    /\ Returned
    /\ Len(positions) = 4
    /\ Runs = {<<1, 2>>, <<4, 4>>}
    /\ Len(windows) = 2
    /\ positions[4].elevation = min_elevation

\* C5: the samples produced are exactly the grid times, among those handled so
\* far, at which propagation succeeded, in grid order.
C5_FailureSkipped ==
    pc \in {"positions", "windows", "write"} =>
        /\ Len(positions) = Len(Succeeded(i))
        /\ \A q \in 1 .. Len(positions) : positions[q].time = times[Succeeded(i)[q]]

\* a failure in the middle of the grid, with samples before and after it
C5_Witness ==
    /\ Returned
    /\ Len(times) = 3
    /\ ephem[1].error_code = 0 /\ ephem[2].error_code # 0 /\ ephem[3].error_code = 0
    /\ Len(positions) = 2


\* C6: every emitted window starts at its first point's time and ends at its
\* last point's time, every point's time lies between the two, and its duration
\* is end - start in seconds; an in-threshold sample with no in-threshold
\* neighbour is emitted as a window with start = end and duration 0.
C6_WindowBounds ==
    /\ Emitted =>
        \A a \in 1 .. Len(windows) :
            LET w == windows[a]
            IN  /\ Len(w.points) >= 1
                /\ w.start = w.points[1].time
                /\ w.end = w.points[Len(w.points)].time
                /\ \A q \in 1 .. Len(w.points) :
                      w.start <= w.points[q].time /\ w.points[q].time <= w.end
                /\ w.duration = w.end - w.start
    /\ Returned =>
        \A r \in Runs :
            r[1] = r[2] =>
                \E a \in 1 .. Len(windows) :
                    /\ SamplesOf(windows[a]) = {r[1]}
                    /\ windows[a].start = windows[a].end
                    /\ windows[a].duration = 0

\* a window of several samples with a positive duration and a window of one
\* sample, from a start time with a fraction of a second
C6_Witness ==
    /\ Returned
    /\ start_time % TicksPerSecond # 0
    /\ \E a, b \in 1 .. Len(windows) :
        /\ windows[a].duration > 0
        /\ Len(windows[b].points) = 1 /\ windows[b].duration = 0

\* C7: _generate_times returns start, start + step, start + 2 step, ... up to
\* the largest such time <= end: nothing beyond end, nothing <= end left out;
\* with start = end the grid is the one time start, which gives one sample if
\* propagation succeeds and no window if it fails.
C7_ClosedGrid ==
    /\ pc \in {"positions", "windows", "write"} =>
        /\ \A q \in 1 .. Len(times) :
              /\ times[q] = start_time + (q - 1) * step_seconds * TicksPerSecond
              /\ times[q] <= end_time
        /\ \A q \in 1 .. (Len(times) - 1) : times[q] < times[q + 1]
        /\ start_time <= end_time => Len(times) >= 1
        /\ Len(times) >= 1 =>
              times[Len(times)] + step_seconds * TicksPerSecond > end_time
        /\ start_time = end_time => times = <<start_time>>
    /\ (Returned /\ start_time = end_time) =>
        /\ Len(ephem) = 1
        /\ ephem[1].error_code = 0 => Len(positions) = 1
        /\ ephem[1].error_code # 0 => (positions = <<>> /\ windows = <<>>)

\* a grid of three times whose last time is strictly before end
C7_Witness ==
    /\ Returned
    /\ Len(times) = 3
    /\ times[3] < end_time

\* the degenerate grid, with the propagation failing
C7_WitnessDegenerate ==
    /\ Returned
    /\ start_time = end_time
    /\ ephem[1].error_code # 0

\* C8: the sample of the last grid time has range rate 0; a sample whose
\* look-ahead propagation fails has range rate 0 and is emitted all the same;
\* every other sample has range rate (range at the next grid time - range at
\* this time) / elapsed seconds.
C8_RangeRate ==
    pc \in {"positions", "windows", "write"} =>
        /\ \A q \in 1 .. Len(positions) :
            LET p == positions[q]
                g == GridIndex(p)
            IN  IF g = Len(times)
                THEN p.rangeRate.num = 0
                ELSE IF ephem[g + 1].error_code # 0
                THEN p.rangeRate.num = 0
                ELSE /\ p.rangeRate.den > 0
                     /\ p.rangeRate.num * (times[g + 1] - times[g])
                        = (ephem[g + 1].range - p.range) * TicksPerSecond * p.rangeRate.den
        /\ \A g \in 1 .. i :
              (ephem[g].error_code = 0 /\ g < Len(times) /\ ephem[g + 1].error_code # 0)
              => \E q \in 1 .. Len(positions) : positions[q].time = times[g]

\* a sample with a non-zero rate, a sample whose look-ahead failed, and the
\* sample of the last grid time, in one calculation
C8_Witness ==
    /\ Returned
    /\ Len(times) = 4 /\ Len(positions) = 3
    /\ ephem[3].error_code # 0
    /\ positions[1].rangeRate.num # 0
    /\ positions[2].time = times[2] /\ positions[2].rangeRate.num = 0
    /\ positions[3].time = times[4] /\ positions[3].rangeRate.num = 0

\* C9: the process has exited with status 1 exactly when it stopped at a test
\* case that failed: that test case and the later ones have no result and
\* nothing runs any more; it has exited with status 0 only with a result
\* written for every selected test case.
C9_FatalFailure ==
    pc = "exit" =>
        /\ exitStatus \in {0, 1}
        /\ exitStatus = 0 => written = 1 .. numFiles
        /\ exitStatus = 1 =>
              /\ fileIdx <= numFiles
              /\ written = 1 .. (fileIdx - 1)
        /\ written # 1 .. numFiles => exitStatus = 1
        /\ ~ENABLED Next

\* the second of two test cases fails after the first one was written
C9_Witness ==
    /\ pc = "exit"
    /\ exitStatus = 1
    /\ numFiles = 2 /\ written = {1}

\* C10: the maxElevationTime of a window is the time of the earliest of its
\* samples whose elevation is the greatest elevation among its samples.
C10_FirstMaximumWins ==
    Emitted =>
        \A a \in 1 .. Len(windows) :
            LET S == SamplesOf(windows[a])
                m == MaxOf({positions[k].elevation : k \in S})
                first == MinOf({k \in S : positions[k].elevation = m})
            IN  windows[a].maxElevationTime = strftime(positions[first].time)

\* a window whose greatest elevation is reached twice, after a lower sample
C10_Witness ==
    /\ Returned
    /\ Len(windows) = 1 /\ Len(positions) = 3
    /\ SamplesOf(windows[1]) = {1, 2, 3}
    /\ positions[1].elevation < positions[2].elevation
    /\ positions[2].elevation = positions[3].elevation


\* ------------------------------------------- the specified streaming segmenter
\* The two-state machine of the design: it consumes one sample at a time and
\* keeps the previous sample's time and the accumulator of the open window.
FsmInit ==
    [state |-> "OUTSIDE", prev |-> None, start |-> None, peak |-> 0, peak_time |-> None,
     points |-> <<>>, out |-> <<>>]

\* the window the machine emits when it closes the open window at time window_end
FsmEmit(m, window_end) ==
    [start |-> strftime(m.start),
     end |-> strftime(window_end),
     maxElevation |-> Round2(m.peak),
     maxElevationTime |-> strftime(m.peak_time),
     duration |-> RoundHalfEven(window_end - m.start, TicksPerSecond),
     points |-> m.points]

\* the machine consumes the sample s
FsmStep(m, s, min_el) ==
    LET pt == [time |-> strftime(s.time), elevation |-> Round2(s.elevation)]
    IN  IF s.elevation >= min_el
        THEN IF m.state = "OUTSIDE"
             THEN [m EXCEPT !.state = "INSIDE", !.prev = s.time, !.start = s.time,
                            !.peak = s.elevation, !.peak_time = s.time, !.points = <<pt>>]
             ELSE [m EXCEPT !.prev = s.time,
                            !.peak = IF s.elevation > m.peak THEN s.elevation ELSE m.peak,
                            !.peak_time = IF s.elevation > m.peak THEN s.time ELSE m.peak_time,
                            !.points = Append(m.points, pt)]
        ELSE IF m.state = "INSIDE"
             THEN [m EXCEPT !.state = "OUTSIDE", !.prev = s.time,
                            !.out = Append(m.out, FsmEmit(m, m.prev))]
             ELSE [m EXCEPT !.prev = s.time]

\* the machine after the first k samples of ps
RECURSIVE FsmRun(_, _, _)
FsmRun(ps, k, min_el) ==
    IF k = 0 THEN FsmInit ELSE FsmStep(FsmRun(ps, k - 1, min_el), ps[k], min_el)

\* the end of the stream: a window still open is closed at the last sample
FsmFinish(m) == IF m.state = "INSIDE" THEN Append(m.out, FsmEmit(m, m.prev)) ELSE m.out

\* C11: at every point of the scan the index-based segmenter has emitted the
\* windows the streaming machine has emitted on the samples consumed so far and
\* is inside a window exactly when the machine is INSIDE; when it returns, its
\* window list is the machine's at the end of the stream, the final window
\* included; and at index 0 no window is open, so positions[i-1] is not read
\* there.
C11_StreamingEquivalent ==
    /\ pc = "windows" =>
        LET m == FsmRun(positions, n, min_elevation)
        IN  /\ windows = m.out
            /\ in_window = (m.state = "INSIDE")
            /\ in_window =>
                /\ window_start = m.start
                /\ window_positions = m.points
                /\ window_max_elevation = m.peak
                /\ window_max_elevation_time = m.peak_time
                /\ PyIndex(positions, n - 1).time = m.prev
            /\ n = 0 => ~in_window
    /\ Returned =>
        windows = FsmFinish(FsmRun(positions, Len(positions), min_elevation))

\* a scan that starts below the threshold, closes one window at a sample below
\* the threshold and ends inside a second window
C11_Witness ==
    /\ Returned
    /\ Len(positions) = 4 /\ Len(windows) = 2
    /\ positions[1].elevation < min_elevation
    /\ positions[3].elevation < min_elevation
    /\ in_window
    /\ windows[2].end = strftime(positions[4].time)


\* C12 (as stated): _generate_times terminates with a finite list for every
\* integer step: each iteration moves current strictly past the time it has
\* just appended, and the list never holds more times than the whole seconds
\* from start to end allow.
C12_Terminates ==
    pc = "generate" =>
        /\ Len(times) >= 1 => current > times[Len(times)]
        /\ start_time > end_time => Len(times) = 0
        /\ start_time <= end_time =>
              Len(times) <= ((end_time - start_time) \div TicksPerSecond) + 1

\* the same with a step of at least one second, where it holds
C12_TerminatesPositiveStep == step_seconds >= 1 => C12_Terminates

====
